---- MODULE Spec2Model ----
(***************************************************************************)
(* caminio-auth: the session revalidation hook (config/hooks/session.js)   *)
(* and the credential / authorization methods of the user model            *)
(* (api/models/user.js, the second UserModel of the file, lines 282-600).  *)
(*                                                                         *)
(* Optional values (a field that may be undefined/null) are sets with at   *)
(* most one element: {} is "missing", {v} is "set to v".                   *)
(***************************************************************************)
EXTENDS Integers, Sequences, FiniteSets, TLC

VARIABLES
  \* ---- session revalidation (session.js) ----
  clock,        \* the wall clock read by new Date(), in ticks
  timeout,      \* caminio.config.session.timeout
  store,        \* the user collection restricted to the session's id: {} or {doc}
  pc,           \* per request: where its deserialize() is
  snap,         \* per request: (err, user) handed to the exec callback
  chk,          \* per request: the new Date() of the staleness check (line 37)
  wnow,         \* per request: the new Date() of the update in flight (line 39)
  werr,         \* per request: the err handed to the update callback
  res,          \* per request: the arguments done() was called with
  via,          \* per request: the branch of deserialize that called done()
  writes,       \* per request: number of user.update() calls it has issued
  expiredSeen,  \* some revalidation has resolved to no user because of staleness
  afterExpiry,  \* per request: its lookup read the store after expiredSeen

  \* ---- isAdmin / admin / isSuperUser (user.js 497-536) ----
  aIn,          \* the inputs: identity, configuration, context
  aOut,         \* the results of isAdmin(ctx), admin, isAdmin()

  \* ---- checkPassword (user.js 578-586) ----
  pIn,          \* the arguments pwd, confirm_pwd
  pOut,         \* the returned array

  \* ---- password / authenticate (user.js 415-437, 473-486) ----
  cred,         \* the identity's salt, encryptedPassword, _password
  auth,         \* the last authenticate() call: its argument and result

  \* ---- generateConfirmationKey (user.js 444-449) ----
  cclock,       \* the wall clock of the confirmation machine
  conf,         \* this.confirmation: key, expires, tries
  gen           \* the calls made: their number and the time of the last one

sessVars   == <<clock, timeout, store, pc, snap, chk, wnow, werr, res, via,
               writes, expiredSeen, afterExpiry>>
adminVars  == <<aIn, aOut>>
policyVars == <<pIn, pOut>>
credVars   == <<cred, auth>>
confVars   == <<cclock, conf, gen>>
vars       == <<sessVars, adminVars, policyVars, credVars, confVars>>

(***************************************************************************)
(* Bounds of the model.                                                    *)
(***************************************************************************)
NumReqs    == 2    \* concurrent revalidations of one session
MaxClock   == 2    \* the clock stops ticking here
MaxTimeout == 1    \* session timeouts 0..MaxTimeout

Reqs       == 1..NumReqs
Times      == 0..MaxClock
NoErr      == "null"
StoreErrors == {"StoreError"}

(***************************************************************************)
(* Session revalidation.                                                   *)
(***************************************************************************)
notSess == <<adminVars, policyVars, credVars, confVars>>

\* The stored document of the session's user; only lastRequestAt varies here.
Doc(lra) == [ id                |-> 1,
              email             |-> "a@x",
              salt              |-> {1},
              encryptedPassword |-> {1},
              role              |-> 100,
              lastLoginAt       |-> {0},
              lastRequestAt     |-> lra ]

NoCall == [called |-> FALSE, err |-> NoErr, user |-> {}]
NoSnap == [err |-> NoErr, user |-> {}]

\* session.js:37, the condition of the early return:
\*   !user.lastRequestAt || user.lastRequestAt.getTime() < (new Date()) - timeout
ExpiredNoMissing(lra, now, to) == \E t \in lra : t < now - to
ExpiredLeq(lra, now, to) == lra = {} \/ \E t \in lra : t <= now - to
Expired(lra, now, to) == lra = {} \/ \E t \in lra : t < now - to

\* session.js:35-44, the exec callback up to its first done() or update():
\* what it decides from (err, user), the clock and the configured timeout.
OnFindDecisionWriteAlways(err, user, now, to) ==
  IF err # NoErr THEN [kind |-> "done", via |-> "lookup_error", err |-> err, user |-> {}]
  ELSE IF user # {} THEN [kind |-> "update", via |-> "fresh", err |-> NoErr, user |-> user]
  ELSE [kind |-> "done", via |-> "not_found", err |-> err, user |-> user]
OnFindDecisionSwallow(err, user, now, to) ==
  IF err # NoErr THEN [kind |-> "done", via |-> "lookup_error", err |-> NoErr, user |-> {}]
  ELSE IF user # {}
    THEN IF \E u \in user : Expired(u.lastRequestAt, now, to)
           THEN [kind |-> "done", via |-> "expired", err |-> NoErr, user |-> {}]
           ELSE [kind |-> "update", via |-> "fresh", err |-> NoErr, user |-> user]
    ELSE [kind |-> "done", via |-> "not_found", err |-> err, user |-> user]
OnFindDecision(err, user, now, to) ==
  IF err # NoErr THEN [kind |-> "done", via |-> "lookup_error", err |-> err, user |-> {}]
  ELSE IF user # {}
    THEN IF \E u \in user : Expired(u.lastRequestAt, now, to)
           THEN [kind |-> "done", via |-> "expired", err |-> NoErr, user |-> {}]
           ELSE [kind |-> "update", via |-> "fresh", err |-> NoErr, user |-> user]
    ELSE [kind |-> "done", via |-> "not_found", err |-> err, user |-> user]

\* session.js:39, user.update({ lastRequestAt: new Date() }): the document after
\* the $set of the one field.
UpdateDocTouchLogin(doc, now) == [doc EXCEPT !.lastRequestAt = {now}, !.lastLoginAt = {now}]
UpdateDoc(doc, now) == [doc EXCEPT !.lastRequestAt = {now}]

\* session.js:40, done( err, user ) of the update callback.
OnUpdateResultDropErr(err, user) == [called |-> TRUE, err |-> NoErr, user |-> user]
OnUpdateResult(err, user) == [called |-> TRUE, err |-> err, user |-> user]

SessInit ==
  /\ clock = 0
  /\ timeout \in 0..MaxTimeout
  /\ store \in {{}, {Doc({})}, {Doc({0})}}
  /\ pc = [r \in Reqs |-> "idle"]
  /\ snap = [r \in Reqs |-> NoSnap]
  /\ chk = [r \in Reqs |-> 0]
  /\ wnow = [r \in Reqs |-> 0]
  /\ werr = [r \in Reqs |-> NoErr]
  /\ res = [r \in Reqs |-> NoCall]
  /\ via = [r \in Reqs |-> "none"]
  /\ writes = [r \in Reqs |-> 0]
  /\ expiredSeen = FALSE
  /\ afterExpiry = [r \in Reqs |-> FALSE]
  /\ aIn = <<>> /\ aOut = <<>>
  /\ pIn = <<>> /\ pOut = <<>>
  /\ cred = <<>> /\ auth = <<>>
  /\ cclock = 0 /\ conf = <<>> /\ gen = <<>>

\* Time passes.
Tick ==
  /\ clock < MaxClock
  /\ clock' = clock + 1
  /\ UNCHANGED <<notSess, timeout, store, pc, snap, chk, wnow, werr, res, via, writes,
                 expiredSeen, afterExpiry>>

\* session.js:31-34: passport calls deserialize(id); the query is issued.
Deserialize(r) ==
  /\ pc[r] = "idle"
  /\ pc' = [pc EXCEPT ![r] = "finding"]
  /\ UNCHANGED <<notSess, clock, timeout, store, snap, chk, wnow, werr, res, via, writes,
                 expiredSeen, afterExpiry>>

\* The store answers findOne({_id: id}): the document as it is now, null, or
\* a failure.
StoreFind(r) ==
  /\ pc[r] = "finding"
  /\ \/ snap' = [snap EXCEPT ![r] = [err |-> NoErr, user |-> store]]
     \/ \E e \in StoreErrors : snap' = [snap EXCEPT ![r] = [err |-> e, user |-> {}]]
  /\ pc' = [pc EXCEPT ![r] = "found"]
  /\ afterExpiry' = [afterExpiry EXCEPT ![r] = expiredSeen]
  /\ UNCHANGED <<notSess, clock, timeout, store, chk, wnow, werr, res, via, writes, expiredSeen>>

\* session.js:34-45: the exec callback. It runs to completion: it either calls
\* done() or issues the update with a second new Date(), which may read a later
\* clock value than the one of the check.
OnFind(r) ==
  /\ pc[r] = "found"
  /\ LET d == OnFindDecision(snap[r].err, snap[r].user, clock, timeout) IN
       /\ via' = [via EXCEPT ![r] = d.via]
       /\ expiredSeen' = (expiredSeen \/
                          (d.via = "expired" /\ \E u \in snap[r].user : u.lastRequestAt # {}))
       /\ IF d.kind = "done"
            THEN /\ res' = [res EXCEPT ![r] = [called |-> TRUE, err |-> d.err, user |-> d.user]]
                 /\ pc' = [pc EXCEPT ![r] = "done"]
                 /\ UNCHANGED <<clock, chk, wnow, writes>>
            ELSE /\ \E c \in {clock, clock + 1} \cap Times :
                      /\ clock' = c
                      /\ wnow' = [wnow EXCEPT ![r] = c]
                 /\ chk' = [chk EXCEPT ![r] = clock]
                 /\ writes' = [writes EXCEPT ![r] = @ + 1]
                 /\ pc' = [pc EXCEPT ![r] = "writing"]
                 /\ UNCHANGED res
  /\ UNCHANGED <<notSess, timeout, store, snap, werr, afterExpiry>>

\* The store handles the update: it sets the field of the stored document, or
\* fails and leaves the document as it is.
StoreUpdate(r) ==
  /\ pc[r] = "writing"
  /\ \/ /\ store' = {UpdateDoc(d, wnow[r]) : d \in store}
        /\ werr' = [werr EXCEPT ![r] = NoErr]
     \/ /\ \E e \in StoreErrors : werr' = [werr EXCEPT ![r] = e]
        /\ UNCHANGED store
  /\ chk' = [chk EXCEPT ![r] = 0]
  /\ wnow' = [wnow EXCEPT ![r] = 0]
  /\ pc' = [pc EXCEPT ![r] = "written"]
  /\ UNCHANGED <<notSess, clock, timeout, snap, res, via, writes, expiredSeen, afterExpiry>>

\* session.js:39-41: the update callback.
OnUpdate(r) ==
  /\ pc[r] = "written"
  /\ res' = [res EXCEPT ![r] = OnUpdateResult(werr[r], snap[r].user)]
  /\ pc' = [pc EXCEPT ![r] = "done"]
  /\ UNCHANGED <<notSess, clock, timeout, store, snap, chk, wnow, werr, via, writes,
                 expiredSeen, afterExpiry>>

\* The request is over; the next inbound request of the session starts afresh.
NextRequest(r) ==
  /\ pc[r] = "done"
  /\ pc' = [pc EXCEPT ![r] = "idle"]
  /\ snap' = [snap EXCEPT ![r] = NoSnap]
  /\ werr' = [werr EXCEPT ![r] = NoErr]
  /\ res' = [res EXCEPT ![r] = NoCall]
  /\ via' = [via EXCEPT ![r] = "none"]
  /\ writes' = [writes EXCEPT ![r] = 0]
  /\ afterExpiry' = [afterExpiry EXCEPT ![r] = FALSE]
  /\ UNCHANGED <<notSess, clock, timeout, store, chk, wnow, expiredSeen>>

SessNext ==
  \/ Tick
  \/ \E r \in Reqs : Deserialize(r)
  \/ \E r \in Reqs : StoreFind(r)
  \/ \E r \in Reqs : OnFind(r)
  \/ \E r \in Reqs : StoreUpdate(r)
  \/ \E r \in Reqs : OnUpdate(r)
  \/ \E r \in Reqs : NextRequest(r)

SessionSpec == SessInit /\ [][SessNext]_vars

(***************************************************************************)
(* Claims about the session revalidation, checked under SessionSpec.       *)
(***************************************************************************)
NoUser == [called |-> TRUE, err |-> NoErr, user |-> {}]

\* The lookup of request r returned an identity whose lastRequestAt is missing.
FoundMissing(r) ==
  snap[r].err = NoErr /\ \E u \in snap[r].user : u.lastRequestAt = {}

\* C1 (as stated): a found identity whose lastRequestAt is missing is never
\* stale: the revalidation takes the fresh path and, unless the write fails,
\* resolves to that identity, never to "no user".
C1_MissingNeverStale ==
  \A r \in Reqs : (pc[r] = "done" /\ FoundMissing(r)) =>
      /\ via[r] = "fresh"
      /\ writes[r] = 1
      /\ (res[r].err = NoErr => res[r].user = snap[r].user)

\* C1 (amended): a found identity whose lastRequestAt is missing is treated as
\* expired: whatever the timeout and the current time, the revalidation
\* resolves to "no user" with no error and issues no write.
C1_MissingIsExpired ==
  \A r \in Reqs : (pc[r] \in {"writing", "written", "done"} /\ FoundMissing(r)) =>
      /\ pc[r] = "done"
      /\ res[r] = NoUser
      /\ writes[r] = 0

C1_Witness ==
  \E r \in Reqs : pc[r] = "done" /\ FoundMissing(r) /\ res[r] = NoUser /\ clock > 0

\* C2: for a found identity with lastRequestAt = t, the callback resolves to
\* "no user" with no error iff now - t > timeout, and issues the update (the
\* fresh path) iff now - t <= timeout, equality included.  now is the clock
\* at the check, i.e. the unprimed clock of the callback's step.
C2_ExpiredIffOverTimeout ==
  [][\A r \in Reqs :
       (pc[r] = "found" /\ pc'[r] # "found" /\ snap[r].err = NoErr) =>
          \A u \in snap[r].user : \A t \in u.lastRequestAt :
             /\ (clock - t > timeout) <=> (pc'[r] = "done" /\ res'[r] = NoUser)
             /\ (clock - t <= timeout) <=>
                   (pc'[r] = "writing" /\ writes'[r] = 1 /\ ~res'[r].called)]_vars

\* The boundary: checked at now - t = timeout exactly, and on the fresh path.
C2_Witness ==
  \E r \in Reqs : /\ pc[r] = "writing"
                  /\ timeout > 0
                  /\ \E u \in snap[r].user : u.lastRequestAt = {chk[r] - timeout}

\* C3: done() gets an error iff a store operation failed.  A failed lookup
\* resolves with the store's error as it is and no identity; a lookup that
\* returns null and an expired session resolve with no error and no identity.
C3_ErrorIffStoreFailure ==
  \A r \in Reqs : pc[r] = "done" =>
      /\ res[r].called
      /\ (res[r].err # NoErr) <=> (snap[r].err # NoErr \/ werr[r] # NoErr)
      /\ snap[r].err # NoErr =>
            res[r] = [called |-> TRUE, err |-> snap[r].err, user |-> {}]
      /\ (snap[r].err = NoErr /\ snap[r].user = {}) => res[r] = NoUser
      /\ via[r] = "expired" => res[r] = NoUser
      /\ werr[r] # NoErr => res[r].err = werr[r]

C3_Witness ==
  \E r \in Reqs : pc[r] = "done" /\ snap[r].err \in StoreErrors /\ res[r].err = snap[r].err

C5_WriteOnlyWhenFresh ==
  [][/\ \A r \in Reqs :
          /\ writes'[r] = (IF via'[r] = "fresh" THEN 1 ELSE 0)
          /\ (pc[r] = "found" /\ pc'[r] = "done") => (store' = store /\ writes'[r] = 0)
     /\ store' # store =>
          /\ \E r \in Reqs : pc[r] = "writing" /\ pc'[r] = "written" /\ via[r] = "fresh"
          /\ Cardinality(store') = Cardinality(store)
          /\ \A d \in store : \E e \in store' :
                e = [d EXCEPT !.lastRequestAt = e.lastRequestAt]]_vars

C5_Witness ==
  \E r \in Reqs : /\ pc[r] = "written" /\ werr[r] = NoErr /\ writes[r] = 1
                  /\ \E u \in snap[r].user : store # {u}

\* C10 (as stated): expiry is sticky under any interleaving.  Once some
\* revalidation has resolved to "no user" because of staleness, every
\* revalidation whose lookup reads the store afterwards and finds the
\* identity resolves to "no user" too: an update still in flight never makes
\* the expired session fresh again.
C10_StickyExpiry ==
  [][\A r \in Reqs :
       (pc[r] = "found" /\ pc'[r] # "found" /\ afterExpiry[r] /\ snap[r].err = NoErr)
          => (pc'[r] = "done" /\ res'[r] = NoUser)]_vars

\* The last clause of C10 as stated: the stored lastRequestAt never decreases.
LastRequestAtNeverDecreases ==
  [][\A d \in store : \A e \in store' :
       \A t \in d.lastRequestAt : \A t2 \in e.lastRequestAt : t2 >= t]_vars

\* The stored lastRequestAt is stale (or missing), no update is in flight and
\* every lookup result still waiting for its callback is stale as well.
StaleQuiet ==
  /\ \A d \in store : \A t \in d.lastRequestAt : clock - t > timeout
  /\ \A r \in Reqs :
       /\ pc[r] # "writing"
       /\ pc[r] = "found" =>
             \A u \in snap[r].user : \A t \in u.lastRequestAt : clock - t > timeout

\* C10 (amended): expiry is sticky once no fresh revalidation is in flight.
\* From a state where the stored lastRequestAt is stale, no update is pending
\* and no callback holds a fresh lookup result, the store never changes again
\* and every callback that runs resolves without a user (to "no user", or to
\* the lookup's error).
C10_StickyWhenQuiet ==
  [][StaleQuiet =>
       /\ StaleQuiet'
       /\ store' = store
       /\ \A r \in Reqs : (pc[r] = "found" /\ pc'[r] # "found") =>
             (pc'[r] = "done" /\ res'[r].user = {} /\ res'[r].err = snap[r].err)]_vars

C10_Witness ==
  /\ StaleQuiet
  /\ expiredSeen
  /\ \E r \in Reqs : /\ pc[r] = "done" /\ afterExpiry[r] /\ via[r] = "expired"
                     /\ \E u \in snap[r].user : u.lastRequestAt # {}

(***************************************************************************)
(* isSuperUser, isAdmin and the admin virtual (user.js 497-536).           *)
(***************************************************************************)
MaxRole == 6    \* roles 1..MaxRole, and the schema's default
NumIds  == 2    \* object ids 1..NumIds

DefaultRole == 100
Roles       == (1..MaxRole) \cup {DefaultRole}
Ids         == 1..NumIds
Emails      == {"a@x", "b@x"}
\* config.superusers: missing, or a list of addresses as typed in the
\* configuration (not lowercased).
SuperuserLists == SUBSET {"a@x", "A@x"}
NoContext   == [kind |-> "none", owner |-> 0]
Contexts    == {NoContext, [kind |-> "group", owner |-> 0]}
                 \cup {[kind |-> "domain", owner |-> o] : o \in Ids}

notAdmin == <<sessVars, policyVars, credVars, confVars>>

\* user.js:534-536: caminio.config.superusers && superusers.indexOf(email) >= 0,
\* as the truth value the callers test.
IsSuperUser(email, superusers) == \E list \in superusers : email \in list

\* ObjectId.toString() and ObjectId.equals(string) of user.js:502.
ObjectIdToString(id) == <<"oid", id>>
ObjectIdEquals(oid, str) == ObjectIdToString(oid) = str

\* user.js:497-504.
IsAdminRoleFirst(u, superusers, ctx) ==
  IF IsSuperUser(u.email, superusers) THEN TRUE
  ELSE IF u.role <= 5 THEN TRUE
  ELSE IF ctx.kind = "domain" THEN ObjectIdEquals(ctx.owner, ObjectIdToString(u.id))
  ELSE FALSE
IsAdmin(u, superusers, ctx) ==
  IF IsSuperUser(u.email, superusers) THEN TRUE
  ELSE IF ctx.kind = "domain" THEN ObjectIdEquals(ctx.owner, ObjectIdToString(u.id))
  ELSE u.role <= 5

\* user.js:506-510.
AdminVirtual(u, superusers) ==
  IF IsSuperUser(u.email, superusers) THEN TRUE ELSE u.role <= 5

SessIdle ==
  /\ clock = 0 /\ timeout = 0 /\ store = {}
  /\ pc = <<>> /\ snap = <<>> /\ chk = <<>> /\ wnow = <<>> /\ werr = <<>>
  /\ res = <<>> /\ via = <<>> /\ writes = <<>>
  /\ expiredSeen = FALSE /\ afterExpiry = <<>>

AdminInit ==
  /\ aIn \in [ user       : [id : Ids, email : Emails, role : Roles],
               superusers : {{}} \cup {{l} : l \in SuperuserLists},
               ctx        : Contexts ]
  /\ aOut = [isAdmin |-> {}, admin |-> {}]
  /\ SessIdle
  /\ pIn = <<>> /\ pOut = <<>>
  /\ cred = <<>> /\ auth = <<>>
  /\ cclock = 0 /\ conf = <<>> /\ gen = <<>>

\* user.isAdmin(groupOrDomain)
CallIsAdmin ==
  /\ aOut.isAdmin = {}
  /\ aOut' = [aOut EXCEPT !.isAdmin = {IsAdmin(aIn.user, aIn.superusers, aIn.ctx)}]
  /\ UNCHANGED <<notAdmin, aIn>>

\* user.admin
GetAdmin ==
  /\ aOut.admin = {}
  /\ aOut' = [aOut EXCEPT !.admin = {AdminVirtual(aIn.user, aIn.superusers)}]
  /\ UNCHANGED <<notAdmin, aIn>>

AdminNext == CallIsAdmin \/ GetAdmin

AdminSpec == AdminInit /\ [][AdminNext]_vars

MaxPwdLen == 7   \* passwords of up to MaxPwdLen characters

Upper == {"A"}
Lower == {"b"}
Digit == {"1"}
Chars == Upper \cup Lower \cup Digit

RECURSIVE StringsUpTo(_)
StringsUpTo(n) ==
  IF n = 0 THEN {<<>>}
  ELSE LET shorter == StringsUpTo(n - 1)
       IN shorter \cup {Append(w, c) : w \in {x \in shorter : Len(x) = n - 1}, c \in Chars}

notPolicy == <<sessVars, adminVars, credVars, confVars>>

\* JavaScript's truth value of an optional string: undefined and "" are falsy.
Truthy(opt) == \E x \in opt : Len(x) > 0

\* The first index from i on whose character is not in class (a greedy c+).
RECURSIVE RunEnd(_, _, _)
RunEnd(w, i, class) ==
  IF i <= Len(w) /\ w[i] \in class THEN RunEnd(w, i + 1, class) ELSE i

\* pwd.match(/[A-Z]+[a-z]+[0-9]+/): the three runs, one after the other,
\* starting at some index.
MatchAt(w, i) ==
  LET j == RunEnd(w, i, Upper)
      k == RunEnd(w, j, Lower)
      l == RunEnd(w, k, Digit)
  IN j > i /\ k > j /\ l > k
MatchesPattern(w) == \E i \in 1..Len(w) : MatchAt(w, i)

\* user.js:578-586.
CheckPasswordConfirmFirst(pwd, confirm) ==
  IF Truthy(confirm) /\ confirm # pwd THEN <<FALSE, "confirmation_missmatch">>
  ELSE IF ~Truthy(pwd) \/ \E w \in pwd : Len(w) < 6 THEN <<FALSE, "too_short">>
  ELSE IF \E w \in pwd : ~MatchesPattern(w) THEN <<FALSE, "requirements_not_met">>
  ELSE <<TRUE>>
CheckPassword(pwd, confirm) ==
  IF ~Truthy(pwd) \/ \E w \in pwd : Len(w) < 6 THEN <<FALSE, "too_short">>
  ELSE IF Truthy(confirm) /\ confirm # pwd THEN <<FALSE, "confirmation_missmatch">>
  ELSE IF \E w \in pwd : ~MatchesPattern(w) THEN <<FALSE, "requirements_not_met">>
  ELSE <<TRUE>>

\* The confirmations tried with a password: none, the empty string, the
\* password itself, and strings that differ from it.
Confirmations(pwd) ==
  {{}, {<<>>}, pwd, {<<"b", "b", "b", "b", "b", "b">>}}
     \cup {{Append(w, "1")} : w \in pwd}

PolicyInit ==
  /\ \E pwd \in {{}} \cup {{w} : w \in StringsUpTo(MaxPwdLen)} :
       \E confirm \in Confirmations(pwd) :
          pIn = [pwd |-> pwd, confirm |-> confirm]
  /\ pOut = <<>>
  /\ SessIdle
  /\ aIn = <<>> /\ aOut = <<>>
  /\ cred = <<>> /\ auth = <<>>
  /\ cclock = 0 /\ conf = <<>> /\ gen = <<>>

\* User.checkPassword(pwd, confirm_pwd)
CallCheckPassword ==
  /\ pOut = <<>>
  /\ pOut' = CheckPassword(pIn.pwd, pIn.confirm)
  /\ UNCHANGED <<notPolicy, pIn>>

PolicyNext == CallCheckPassword

PolicySpec == PolicyInit /\ [][PolicyNext]_vars

TooShort == \A w \in pIn.pwd : Len(w) < 6

\* upper case, lower case and digit in that relative order, anywhere
InRelativeOrder(w) ==
  \E i, j, k \in 1..Len(w) :
     i < j /\ j < k /\ w[i] \in Upper /\ w[j] \in Lower /\ w[k] \in Digit

\* an upper-case letter, then lower-case letters only (at least one), then a
\* digit
Contiguous(w) ==
  \E i, k \in 1..Len(w) :
     /\ i + 1 < k /\ w[i] \in Upper /\ w[k] \in Digit
     /\ \A j \in (i + 1)..(k - 1) : w[j] \in Lower

\* C7 (as stated): too_short when the length is below 6; otherwise
\* confirmation mismatch when a confirmation is given (read as: a non-empty
\* one, the reading that favours the statement) and differs; otherwise
\* requirements_not_met when the password has no upper-case letter, lower-case
\* letter and digit in that relative order; otherwise success.
C7_PolicyAsStated ==
  pOut # <<>> =>
     pOut = (IF TooShort THEN <<FALSE, "too_short">>
             ELSE IF Truthy(pIn.confirm) /\ pIn.confirm # pIn.pwd
                    THEN <<FALSE, "confirmation_missmatch">>
             ELSE IF \E w \in pIn.pwd : ~InRelativeOrder(w)
                    THEN <<FALSE, "requirements_not_met">>
             ELSE <<TRUE>>)

\* C7 (amended): too_short when the password is missing or shorter than 6;
\* otherwise confirmation mismatch when a non-empty confirmation is given and
\* differs; otherwise requirements_not_met unless the password contains an
\* upper-case letter directly followed by one or more lower-case letters
\* directly followed by a digit; otherwise success.  One of four outcomes.
C7_Policy ==
  pOut # <<>> =>
     /\ pOut \in {<<TRUE>>, <<FALSE, "too_short">>, <<FALSE, "confirmation_missmatch">>,
                  <<FALSE, "requirements_not_met">>}
     /\ pOut = (IF TooShort THEN <<FALSE, "too_short">>
                ELSE IF pIn.confirm \notin {{}, {<<>>}, pIn.pwd}
                       THEN <<FALSE, "confirmation_missmatch">>
                ELSE IF \E w \in pIn.pwd : ~Contiguous(w)
                       THEN <<FALSE, "requirements_not_met">>
                ELSE <<TRUE>>)

\* Short and with a differing confirmation: the length check wins.
C7_Witness ==
  /\ pOut = <<FALSE, "too_short">>
  /\ \E w \in pIn.pwd : Len(w) > 0
  /\ Truthy(pIn.confirm) /\ pIn.confirm # pIn.pwd

(***************************************************************************)
(* The password virtual, generateSalt, encryptPassword and authenticate    *)
(* (user.js 415-437, 473-486).                                             *)
(***************************************************************************)
MaxPlain  == 4   \* plaintext passwords 1..MaxPlain
MaxSalt   == 3   \* generateSalt() returns one of 1..MaxSalt
HashSpace == 2   \* digests 0..HashSpace-1: small, so that digests collide

Plains == 1..MaxPlain
Salts  == 1..MaxSalt

notCred == <<sessVars, adminVars, policyVars, confVars>>

\* crypto.createHmac(algorithm, key).update(msg).digest('hex'): a deterministic
\* function of key and message that is not injective.
Hmac(key, msg) == (3 * key + 5 * msg) % HashSpace

\* user.js:484-486: the digest of the password keyed by this.salt.
EncryptPassword(c, password) == {Hmac(key, password) : key \in c.salt}

\* user.js:416-420: the setter of the password virtual; newSalt is what
\* this.generateSalt() (473-475) returned.
SetPasswordHashBeforeSalt(c, password, newSalt) ==
  [ _password         |-> {password},
    salt              |-> {newSalt},
    encryptedPassword |-> IF c.salt = {} THEN {Hmac(0, password)}
                          ELSE EncryptPassword(c, password) ]
SetPassword(c, password, newSalt) ==
  LET c1 == [c  EXCEPT !._password = {password}]
      c2 == [c1 EXCEPT !.salt = {newSalt}]
  IN [c2 EXCEPT !.encryptedPassword = EncryptPassword(c2, password)]

\* user.js:435-437.
AuthenticateByPlaintext(c, plainTextPassword) == c._password = {plainTextPassword}
Authenticate(c, plainTextPassword) ==
  EncryptPassword(c, plainTextPassword) = c.encryptedPassword

CredInit ==
  /\ cred = [_password |-> {}, salt |-> {}, encryptedPassword |-> {}]
  /\ auth = [arg |-> {}, result |-> {}]
  /\ SessIdle
  /\ aIn = <<>> /\ aOut = <<>>
  /\ pIn = <<>> /\ pOut = <<>>
  /\ cclock = 0 /\ conf = <<>> /\ gen = <<>>

\* user.password = p
AssignPassword ==
  /\ \E p \in Plains : \E s \in Salts : cred' = SetPassword(cred, p, s)
  /\ UNCHANGED <<notCred, auth>>

\* user.authenticate(p).  Without a salt createHmac throws; the call is made
\* on identities whose password has been set.
CallAuthenticate ==
  /\ cred.salt # {}
  /\ \E p \in Plains : auth' = [arg |-> {p}, result |-> {Authenticate(cred, p)}]
  /\ UNCHANGED <<notCred, cred>>

CredNext == AssignPassword \/ CallAuthenticate

CredSpec == CredInit /\ [][CredNext]_vars

\* C8: salt and hash are set together, and the stored hash is the digest of
\* the most recently set plaintext under the stored salt.  authenticate(p)
\* returns true iff the digest of p under the stored salt is the stored hash,
\* so it returns true for the most recently set plaintext, and it changes no
\* field of the identity.
C8_Credentials ==
  [][/\ (cred'.salt = {}) <=> (cred'.encryptedPassword = {})
     /\ \A s \in cred'.salt : \A p \in cred'._password :
           cred'.encryptedPassword = {Hmac(s, p)}
     /\ auth' # auth =>
           /\ cred' = cred
           /\ \A p \in auth'.arg : \A s \in cred.salt : \A h \in cred.encryptedPassword :
                 /\ auth'.result = {Hmac(s, p) = h}
                 /\ p \in cred._password => auth'.result = {TRUE}]_vars

\* authenticate() has accepted the password that was set last.
C8_Witness ==
  /\ auth.result = {TRUE}
  /\ auth.arg = cred._password
  /\ \E s \in cred.salt : \E p \in cred._password : cred.encryptedPassword = {Hmac(s, p)}

(***************************************************************************)
(* generateConfirmationKey (user.js 444-449).                              *)
(***************************************************************************)
MaxCalls    == 4   \* calls of generateConfirmationKey
MaxConfTime == 3   \* the clock of this machine stops here

notConf == <<sessVars, adminVars, policyVars, credVars>>

\* caminioUtil.uid(n): a random token of n characters.
Uid(n) == {[i \in 1..n |-> c] : c \in {"x", "y", "z"}}

\* A Date value, and the value of the JavaScript expression date + number:
\* the Date converts to its string and the number's digits are appended.
DateAt(ms) == [type |-> "date", at |-> ms, tail |-> 0]
DatePlusNumber(now, n) == [type |-> "string", at |-> now, tail |-> n]

\* user.js:444-449.
GenerateConfirmationKeyFields(c, key, now) ==
  [ key     |-> {key},
    expires |-> {DatePlusNumber(now, 1800 * 1000)},
    tries   |-> {(IF c.tries \in {{}, {0}} THEN 0 ELSE CHOOSE t \in c.tries : TRUE) + 1} ]

ConfInit ==
  /\ cclock = 0
  /\ conf = [key |-> {}, expires |-> {}, tries |-> {}]
  /\ gen = [calls |-> 0, at |-> 0]
  /\ SessIdle
  /\ aIn = <<>> /\ aOut = <<>>
  /\ pIn = <<>> /\ pOut = <<>>
  /\ cred = <<>> /\ auth = <<>>

ConfTick ==
  /\ cclock < MaxConfTime
  /\ cclock' = cclock + 1
  /\ UNCHANGED <<notConf, conf, gen>>

\* user.generateConfirmationKey()
GenerateConfirmationKey ==
  /\ gen.calls < MaxCalls
  /\ \E k \in Uid(8) : conf' = GenerateConfirmationKeyFields(conf, k, cclock)
  /\ gen' = [calls |-> gen.calls + 1, at |-> cclock]
  /\ UNCHANGED <<notConf, cclock>>

ConfNext == ConfTick \/ GenerateConfirmationKey

ConfSpec == ConfInit /\ [][ConfNext]_vars

\* C9: after n >= 1 calls the token has 8 characters, the expiry is the point
\* in time 1800 * 1000 ms after the time of the last call, and tries = n.
C9_ConfirmationKey ==
  gen.calls > 0 =>
     /\ \E k \in conf.key : Len(k) = 8
     /\ conf.expires = {DateAt(gen.at + 1800 * 1000)}
     /\ conf.tries = {gen.calls}

\* What does hold of the calls: the token and the counter.
ConfirmationKeyAndTries ==
  gen.calls > 0 => /\ \E k \in conf.key : Len(k) = 8
                   /\ conf.tries = {gen.calls}

====
